---- MODULE Spec2Model ----
(***************************************************************************)
(* Budget-constrained multi-agent scheduler of stefanrosscohen/hive:       *)
(* BudgetManager (orchestrator/budget.ts), the Agent loop (agents/agent.ts)*)
(* and the Orchestrator (orchestrator/orchestrator.ts).                    *)
(*                                                                         *)
(* Money is counted in whole units.  A total budget is a multiple of       *)
(* BudgetStep units so that the 10%, 20% and 35% shares the code computes  *)
(* are exact.                                                              *)
(***************************************************************************)
EXTENDS Integers, Sequences, FiniteSets, TLC

(* ---------------------------- bounds ---------------------------------- *)
\* total budgets tried: 0, BudgetStep, ..., MaxBudgetUnits * BudgetStep
MaxBudgetUnits == 1
\* AgentConfig.maxTurns; the orchestrator's agents run with the default,
\* which the source sets to 100 and the model scales down to this bound
MaxTurns == 2
\* largest number of tool invocations one backend response carries to an
\* agent of the orchestrator
MaxToolCalls == 1
\* largest number of tool invocations in a response to the agent whose tool
\* batches are examined ("BatchAgent")
MaxBatch == 2
\* largest number of subtasks in a planner decomposition
MaxSubtasks == 2
\* largest number of ids in one dependsOn list
MaxDeps == 1
\* usage cost of a backend call that is not free
CallCost == 6
\* the default turn limit and the cost of a call in the long run of a single
\* coder, where the ledger fills up before the coder's own ceiling does
LongTurns == 3
LongCallCost == 8

(* ----------------------- program constants ---------------------------- *)
BudgetStep == 20
ReservePercent == 10
PlannerPercent == 10
SimplePercent == 10
MediumPercent == 20
ComplexPercent == 35

Min(a, b) == IF a <= b THEN a ELSE b
Max(a, b) == IF a >= b THEN a ELSE b
Percent(x, p) == (x * p) \div 100

Budgets == { BudgetStep * k : k \in 0..MaxBudgetUnits }
Costs == {0, CallCost}

(* ------------------------- BudgetManager ------------------------------ *)
\* constructor(totalBudget, reservePercent = 0.1)
NewBudgetManager(total) ==
  [totalBudget |-> total,
   totalSpent  |-> 0,
   reserve     |-> Percent(total, ReservePercent),
   agentBudgets |-> << >>]

\* get remaining()
remaining(b) == Max(0, b.totalBudget - b.totalSpent)

\* allocated that does not withhold the reserve
allocated_NoReserve(b, requested) ==
  Min(requested, Max(0, b.totalBudget - b.totalSpent))

\* the value allocate(agentId, requested) returns
allocated(b, requested) ==
  Min(requested, Max(0, b.totalBudget - b.totalSpent - b.reserve))

\* allocate that registers the requested amount instead of the granted one
allocate_StoresRequested(b, agentId, requested) ==
  [b EXCEPT !.agentBudgets = (agentId :> [allocated |-> requested, spent |-> 0]) @@ @]

\* the BudgetManager after allocate(agentId, requested)
allocate(b, agentId, requested) ==
  [b EXCEPT !.agentBudgets =
     (agentId :> [allocated |-> allocated(b, requested), spent |-> 0]) @@ @]

\* recordSpend that stops counting at the total
recordSpend_CapsAtTotal(b, agentId, amount) ==
  [b EXCEPT !.totalSpent = Min(b.totalBudget, @ + amount)]

\* the BudgetManager after recordSpend(agentId, amount)
recordSpend(b, agentId, amount) ==
  [b EXCEPT !.totalSpent = @ + amount,
            !.agentBudgets =
               [k \in DOMAIN @ |->
                  IF k = agentId THEN [@[k] EXCEPT !.spent = @ + amount]
                                 ELSE @[k]]]

\* percentUsed >= p, where percentUsed = (totalSpent / totalBudget) * 100 is
\* Infinity for a positive spend out of a total of 0 and NaN, which compares
\* false, for 0 out of 0
atLeastPercent(b, p) ==
  IF b.totalBudget > 0 THEN b.totalSpent * 100 >= p * b.totalBudget
  ELSE b.totalSpent > 0

\* exhausted that needs the spend to pass the total
exhausted_OnlyPast(b) == b.totalSpent > b.totalBudget

\* "if (this.totalSpent >= this.totalBudget)"
exhausted(b) == b.totalSpent >= b.totalBudget

\* the events recordSpend(agentId, amount) emits, in order
recordSpendEmits(b, agentId, amount) ==
  LET after == recordSpend(b, agentId, amount)
      spend == [type |-> "spend", agentId |-> agentId, amount |-> amount,
                total |-> after.totalSpent,
                remaining |-> after.totalBudget - after.totalSpent]
      warning == [type |-> "warning", agentId |-> agentId, amount |-> 0,
                  total |-> after.totalSpent, remaining |-> 0]
      exhaustion == [type |-> "exhausted", agentId |-> agentId, amount |-> 0,
                     total |-> 0, remaining |-> 0]
  IN << spend >>
     \o (IF atLeastPercent(after, 90) THEN << warning >>
         ELSE IF atLeastPercent(after, 80) THEN << warning >>
         ELSE << >>)
     \o (IF exhausted(after) THEN << exhaustion >> ELSE << >>)

\* the value recordSpend(agentId, amount) returns
recordSpendReturns(b, agentId, amount) ==
  ~exhausted(recordSpend(b, agentId, amount))

\* canSpend(agentId)
canSpend(b, agentId) ==
  IF agentId \notin DOMAIN b.agentBudgets THEN FALSE
  ELSE /\ b.agentBudgets[agentId].spent < b.agentBudgets[agentId].allocated
       /\ b.totalSpent < b.totalBudget

\* release that forgets every sub-ledger
release_DropsAll(b, agentId) == [b EXCEPT !.agentBudgets = << >>]

\* the BudgetManager after release(agentId)
release(b, agentId) ==
  [b EXCEPT !.agentBudgets = [k \in (DOMAIN @) \ {agentId} |-> @[k]]]

\* unspent that returns the whole allocation
unspent_Allocated(b, agentId) ==
  IF agentId \notin DOMAIN b.agentBudgets THEN 0
  ELSE b.agentBudgets[agentId].allocated

\* the value release(agentId) returns
unspent(b, agentId) ==
  IF agentId \notin DOMAIN b.agentBudgets THEN 0
  ELSE b.agentBudgets[agentId].allocated - b.agentBudgets[agentId].spent

\* getSummary()
getSummary(b) ==
  [total |-> b.totalBudget, spent |-> b.totalSpent, remaining |-> remaining(b),
   agents |-> b.agentBudgets]

(* ------------------------- planner output ----------------------------- *)
\* presets of AGENT_PRESETS
Presets == {"planner", "coder", "researcher", "reviewer"}
PresetName(p) ==
  CASE p = "planner"    -> "Planner"
    [] p = "coder"      -> "Coder"
    [] p = "researcher" -> "Researcher"
    [] p = "reviewer"   -> "Reviewer"

Description(id) == "subtask-" \o ToString(id)
AgentKey(id) == "agent-" \o ToString(id)
OriginalTask == "task"

\* dependsOn lists: ascending ids, one of them (MaxSubtasks + 1) names no subtask
RECURSIVE SeqsOver(_, _)
SeqsOver(S, n) ==
  IF n = 0 THEN { << >> }
  ELSE LET shorter == SeqsOver(S, n - 1)
       IN shorter \cup { Append(s, x) : s \in shorter, x \in S }

Ascending(s) == \A i \in 1..(Len(s) - 1) : s[i] < s[i + 1]
DepLists == { s \in SeqsOver(1..(MaxSubtasks + 1), MaxDeps) : Ascending(s) }
Complexities == {"simple", "medium", "complex"}

\* an element of the parsed array with every SubTask field present
Element(id, cx, deps) ==
  [id |-> id, description |-> Description(id),
   agentType |-> IF id = 1 THEN "coder" ELSE "reviewer",
   complexity |-> cx, hasDependsOn |-> TRUE, dependsOn |-> deps]

\* the ids of a decomposition, in the order the planner lists them; nothing
\* keeps the planner from repeating an id
IdLists == { s \in SeqsOver(1..MaxSubtasks, MaxSubtasks) : Len(s) > 0 }

\* the complexity and dependsOn list of each element of a decomposition
AttributesFor(ids) == [1..Len(ids) -> Complexities \X DepLists]

\* the decomposition with these ids and attributes
Plan(ids, attrs) ==
  [i \in 1..Len(ids) |-> Element(ids[i], attrs[i][1], attrs[i][2])]

\* an array every element of which has the SubTask fields
WellFormedPlan(elems) ==
  /\ Len(elems) > 0
  /\ \A i \in 1..Len(elems) :
       /\ elems[i].hasDependsOn
       /\ elems[i].agentType \in Presets
       /\ elems[i].complexity \in Complexities

\* arrays whose elements lack SubTask fields
NoDependsOn == [Element(1, "simple", << >>) EXCEPT !.hasDependsOn = FALSE]
NoAgentType(id) == [Element(id, "simple", << >>) EXCEPT !.agentType = "undefined"]
NoComplexity == [Element(1, "simple", << >>) EXCEPT !.complexity = "undefined"]
MalformedPlans ==
  { << NoDependsOn >>, << NoAgentType(1) >>, << NoComplexity >>,
    << Element(1, "simple", << >>), NoAgentType(2) >> }

\* what the bracketed part of the planner's text is: JSON.parse throws on
\* it, or it parses to an array (possibly empty) of elements
PlanText(elems) == [matched |-> TRUE, parses |-> TRUE, elems |-> elems]
UnparsableText == [matched |-> TRUE, parses |-> FALSE, elems |-> << >>]

\* jsonMatch is null: the output holds no bracketed text
NoPlanText == [matched |-> FALSE, parses |-> FALSE, elems |-> << >>]

(* ------------------------- topologicalSort ---------------------------- *)
\* subtasks.find((t) => t.id === depId): index of the first match, 0 if none
FindIndex(subs, depId) ==
  IF \E i \in 1..Len(subs) : subs[i].id = depId
  THEN CHOOSE i \in 1..Len(subs) :
         subs[i].id = depId /\ \A j \in 1..(i - 1) : subs[j].id # depId
  ELSE 0

\* visit(task) and its loop over task.dependsOn; st = [sorted, visited]
RECURSIVE visit(_, _, _), visitDeps(_, _, _)
visit(subs, i, st) ==
  IF subs[i].id \in st.visited THEN st
  ELSE LET marked == [st EXCEPT !.visited = @ \cup {subs[i].id}]
           after  == visitDeps(subs, subs[i].dependsOn, marked)
       IN [after EXCEPT !.sorted = Append(@, subs[i])]
visitDeps(subs, deps, st) ==
  IF deps = << >> THEN st
  ELSE LET j == FindIndex(subs, Head(deps))
       IN visitDeps(subs, Tail(deps), IF j = 0 THEN st ELSE visit(subs, j, st))

RECURSIVE visitAll(_, _, _)
visitAll(subs, i, st) ==
  IF i > Len(subs) THEN st ELSE visitAll(subs, i + 1, visit(subs, i, st))

\* topologicalSort that lists every subtask twice
topologicalSort_Twice(subs) ==
  LET once == visitAll(subs, 1, [sorted |-> << >>, visited |-> {}]).sorted
  IN once \o once

\* topologicalSort that returns the plan in the order the planner listed it
topologicalSort_PlanOrder(subs) == subs

topologicalSort(subs) ==
  visitAll(subs, 1, [sorted |-> << >>, visited |-> {}]).sorted

\* "for (const depId of task.dependsOn)" on an element without dependsOn
topologicalSortThrows(subs) ==
  \E i \in 1..Len(subs) : ~subs[i].hasDependsOn

(* ------------------------------ Agent --------------------------------- *)
RegisteredTools == {"bash"}
ToolNames == {"bash", "no_such_tool"}
ToolBatches(n) ==
  { [i \in 1..Len(s) |-> [id |-> i, name |-> s[i]]] : s \in SeqsOver(ToolNames, n) }
ToolCallLists == ToolBatches(MaxToolCalls)

NoResult ==
  [id |-> "none", name |-> "none", output |-> "", totalCost |-> 0, turns |-> 0,
   status |-> "none"]

NoAgent ==
  [id |-> "none", name |-> "none", budget |-> 0, maxTurns |-> 0, messages |-> << >>,
   totalCost |-> 0, turns |-> 0, aborted |-> FALSE, pc |-> "none",
   pending |-> << >>, toolResults |-> << >>, onCostUpdate |-> "none",
   chats |-> 0, result |-> NoResult]

\* new Agent(config); onCostUpdate is the ledger id the caller's cost_update
\* listener records under ("none": no listener); chats is history, the
\* number of provider.chat calls the agent has started
NewAgent(id, name, ceiling, turnLimit, listener) ==
  [NoAgent EXCEPT !.id = id, !.name = name, !.budget = ceiling,
                  !.maxTurns = turnLimit, !.pc = "new", !.onCostUpdate = listener]

Message(role, content, calls, results) ==
  [role |-> role, content |-> content, toolCalls |-> calls, toolResults |-> results]

\* messages.filter(assistant with content).pop()?.content, "" for undefined
LastAssistantContent(msgs) ==
  LET idxs == { i \in 1..Len(msgs) : msgs[i].role = "assistant" /\ msgs[i].content # "" }
  IN IF idxs = {} THEN ""
     ELSE msgs[CHOOSE i \in idxs : \A j \in idxs : j <= i].content

\* finish(status, output); hasOutput is FALSE when output is undefined
finish(a, status, hasOutput, output) ==
  LET last == LastAssistantContent(a.messages)
      finalOutput == IF hasOutput THEN output
                     ELSE IF last # "" THEN last
                     ELSE "Agent finished with status"
  IN [a EXCEPT !.pc = "done",
               !.result = [id |-> a.id, name |-> a.name, output |-> finalOutput,
                           totalCost |-> a.totalCost, turns |-> a.turns,
                           status |-> status]]

\* LoopTop without the budget check before the call
LoopTop_NoBudgetCheck(a) ==
  IF a.turns < a.maxTurns /\ ~a.aborted
  THEN [a EXCEPT !.pc = "chat", !.chats = @ + 1]
  ELSE finish(a, IF a.aborted THEN "error" ELSE "max_turns", FALSE, "")

\* LoopTop whose loop exit returns nothing: run never resolves
LoopTop_NoReturnAfterLoop(a) ==
  IF a.turns < a.maxTurns /\ ~a.aborted
  THEN IF a.totalCost >= a.budget
       THEN finish(a, "budget_exhausted", FALSE, "")
       ELSE [a EXCEPT !.pc = "chat", !.chats = @ + 1]
  ELSE [a EXCEPT !.pc = "exited"]

\* LoopTop whose budget check lets a call start at the ceiling
LoopTop_CheckPastCeiling(a) ==
  IF a.turns < a.maxTurns /\ ~a.aborted
  THEN IF a.totalCost > a.budget
       THEN finish(a, "budget_exhausted", FALSE, "")
       ELSE [a EXCEPT !.pc = "chat", !.chats = @ + 1]
  ELSE finish(a, IF a.aborted THEN "error" ELSE "max_turns", FALSE, "")

\* LoopTop that goes round once more than the turn limit allows
LoopTop_OneTurnMore(a) ==
  IF a.turns <= a.maxTurns /\ ~a.aborted
  THEN IF a.totalCost >= a.budget
       THEN finish(a, "budget_exhausted", FALSE, "")
       ELSE [a EXCEPT !.pc = "chat", !.chats = @ + 1]
  ELSE finish(a, IF a.aborted THEN "error" ELSE "max_turns", FALSE, "")

\* LoopTop that does not look at the abort flag
LoopTop_IgnoresAbort(a) ==
  IF a.turns < a.maxTurns
  THEN IF a.totalCost >= a.budget
       THEN finish(a, "budget_exhausted", FALSE, "")
       ELSE [a EXCEPT !.pc = "chat", !.chats = @ + 1]
  ELSE finish(a, "max_turns", FALSE, "")

\* the while condition and the budget check, up to the provider.chat call
LoopTop(a) ==
  IF a.turns < a.maxTurns /\ ~a.aborted
  THEN IF a.totalCost >= a.budget
       THEN finish(a, "budget_exhausted", FALSE, "")
       ELSE [a EXCEPT !.pc = "chat", !.chats = @ + 1]
  ELSE finish(a, IF a.aborted THEN "error" ELSE "max_turns", FALSE, "")

\* run(task) up to its first await
run(a, task) ==
  LoopTop([a EXCEPT !.messages = Append(@, Message("user", task, << >>, << >>))])

\* ToolRegistry.execute(name, args)
execute(name, handlerThrows) ==
  IF name \notin RegisteredTools THEN "Error: Unknown tool"
  ELSE IF handlerThrows THEN "Error executing tool"
  ELSE "tool output"

\* trackUsage that counts the turn but not its cost
trackUsage_DropsCost(a, cost) == [a EXCEPT !.turns = @ + 1]

\* "this.totalCost += response.usage.cost; this.turns++"
trackUsage(a, cost) == [a EXCEPT !.totalCost = @ + cost, !.turns = @ + 1]

\* the agent after provider.chat resolved: completion, or the start of the
\* tool batch
chatReturns(a, cost, content, calls) ==
  LET said == [trackUsage(a, cost) EXCEPT
                 !.messages = Append(@, Message("assistant", content, calls, << >>))]
  IN IF calls = << >>
     THEN finish(said, "completed", TRUE, content)
     ELSE [said EXCEPT !.pc = "tools", !.pending = calls, !.toolResults = << >>]

\* chatThrows that lets the exception leave run
chatThrows_Rethrows(a) == [a EXCEPT !.pc = "thrown"]

\* the agent after provider.chat rejected: the catch block of run
chatThrows(a) == finish(a, "error", TRUE, "Error: backend failure")

\* toolReturns that collects the newest result first
toolReturns_NewestFirst(a, handlerThrows) ==
  LET head == Head(a.pending)
      results == << [toolCallId |-> head.id,
                     content |-> execute(head.name, handlerThrows)] >> \o a.toolResults
      rest == Tail(a.pending)
  IN IF rest # << >>
     THEN [a EXCEPT !.pending = rest, !.toolResults = results]
     ELSE LoopTop([a EXCEPT
                     !.pending = << >>, !.toolResults = << >>,
                     !.messages = Append(@, Message("tool", "", << >>, results))])

\* toolReturns that gives up the rest of the batch when a tool fails
toolReturns_StopsOnError(a, handlerThrows) ==
  IF execute(Head(a.pending).name, handlerThrows) # "tool output"
  THEN finish(a, "error", TRUE, "Error: tool failure")
  ELSE LoopTop([a EXCEPT !.pending = << >>, !.toolResults = << >>])

\* the agent after tools.execute resolved for the invocation at the head of
\* the batch; after the last one the tool-result message is appended and the
\* loop goes round
toolReturns(a, handlerThrows) ==
  LET head == Head(a.pending)
      results == Append(a.toolResults,
                        [toolCallId |-> head.id,
                         content |-> execute(head.name, handlerThrows)])
      rest == Tail(a.pending)
  IN IF rest # << >>
     THEN [a EXCEPT !.pending = rest, !.toolResults = results]
     ELSE LoopTop([a EXCEPT
                     !.pending = << >>, !.toolResults = << >>,
                     !.messages = Append(@, Message("tool", "", << >>, results))])

\* The stub backend.  A response carries a text (none, prose, or prose
\* holding a bracketed text, "plan") and a list of tool invocations.
\* The planner prompt and a directly constructed agent ("Agent") are answered
\* with every text; the orchestrator only copies the text of the other
\* presets, which are answered with prose and with registered tools.  The
\* agent whose tool batches are examined is answered with prose at no cost
\* and with batches of up to MaxBatch invocations
CostsFor(a) == IF a.name = "BatchAgent" THEN {0} ELSE Costs
ContentsFor(a) ==
  IF a.name = "Planner" THEN {"", "text", "plan"}
  ELSE IF a.name = "Agent" THEN {"", "text"}
  ELSE {"text"}
ToolCallListsFor(a) ==
  IF a.name = "BatchAgent" THEN ToolBatches(MaxBatch)
  ELSE IF a.name \in {"Planner", "Agent"} THEN ToolCallLists
  ELSE { calls \in ToolCallLists : \A k \in 1..Len(calls) : calls[k].name \in RegisteredTools }

(* ------------------------------ state --------------------------------- *)
VARIABLES
  providerConfigured, \* Orchestrator.providers holds the provider of the model
  toolRegistry,       \* Orchestrator.toolRegistry: "null" or "ready"
  activeTasks,        \* keys of Orchestrator.activeTasks
  activeAgents,       \* keys of Orchestrator.activeAgents
  pc,                 \* where runTask stands
  config,             \* TaskConfig of the runTask call
  budget,             \* the task's BudgetManager
  planText,           \* the bracketed text planTask matched in the planner's output
  subtasks,           \* what planTask returned
  sorted,             \* topologicalSort(subtasks), the list the loop iterates
  idx,                \* position of the loop in sorted
  completed,          \* runTask's completed set
  agentResults,       \* runTask's agentResults
  taskResult,         \* the TaskResult runTask resolved with
  agent,              \* the Agent object whose run is in progress
  nextId,             \* supply of uuid()
  actualCost,         \* history: sum of usage.cost of the backend calls returned
  events,             \* the agent_started / agent_done events emitted so far
  lastCall,           \* the last call a client made on a BudgetManager of its own
  ledgerHistory,      \* history of that BudgetManager's calls
  tasks               \* the runTask calls of two tasks run side by side

vars == << providerConfigured, toolRegistry, activeTasks, activeAgents, pc, config,
           budget, planText, subtasks, sorted, idx, completed, agentResults,
           taskResult, agent, nextId, actualCost, events, lastCall, ledgerHistory,
           tasks >>

orchVars == << providerConfigured, toolRegistry, activeTasks, activeAgents, pc, config,
               planText, subtasks, sorted, idx, completed, agentResults, taskResult,
               nextId, events, lastCall, ledgerHistory, tasks >>

\* no call made yet on the client's BudgetManager
NoCall ==
  [op |-> "none", agentId |-> "none", amount |-> 0, returned |-> 0, emitted |-> << >>]
NoLedgerHistory ==
  [recorded |-> 0, warnings |-> 0, spentAtAllocation |-> << >>, everAllocated |-> {}]
\* no second runTask call in progress
NoTasks == << >>

TaskId == "task-1"
Uuid(n) == "uuid-" \o ToString(n)

NoTaskResult ==
  [status |-> "none", output |-> << >>, totalCost |-> 0, agentResults |-> << >>]

Init ==
  /\ providerConfigured \in BOOLEAN
  /\ planText = NoPlanText
  /\ toolRegistry = "null"
  /\ activeTasks = {}
  /\ activeAgents = {}
  /\ pc = "idle"
  /\ config = [task |-> OriginalTask, budget |-> 0]
  /\ budget = NewBudgetManager(0)
  /\ subtasks = << >>
  /\ sorted = << >>
  /\ idx = 0
  /\ completed = {}
  /\ agentResults = << >>
  /\ taskResult = NoTaskResult
  /\ agent = NoAgent
  /\ nextId = 1
  /\ actualCost = 0
  /\ events = << >>
  /\ lastCall = NoCall
  /\ ledgerHistory = NoLedgerHistory
  /\ tasks = NoTasks

(* --------------------------- Agent steps ------------------------------- *)
\* the cost_update listener the orchestrator wired to the agent
OnCostUpdate(a, b) ==
  IF a.onCostUpdate = "none" THEN b ELSE recordSpend(b, a.onCostUpdate, a.totalCost)

\* provider.chat resolves: cost tracking, then completion or the start of
\* the tool batch
BackendReturns(cost, content, calls) ==
  /\ agent.pc = "chat"
  /\ budget' = OnCostUpdate(trackUsage(agent, cost), budget)
  /\ agent' = chatReturns(agent, cost, content, calls)
  /\ actualCost' = actualCost + cost
  /\ UNCHANGED orchVars

\* provider.chat rejects: the catch block of run
BackendThrows ==
  /\ agent.pc = "chat"
  /\ agent' = chatThrows(agent)
  /\ UNCHANGED << budget, actualCost >>
  /\ UNCHANGED orchVars

\* tools.execute resolves for the invocation at the head of the batch; after
\* the last one the tool-result message is appended and the loop goes round
ToolReturns(handlerThrows) ==
  /\ agent.pc = "tools"
  /\ agent.pending # << >>
  /\ agent' = toolReturns(agent, handlerThrows)
  /\ UNCHANGED << budget, actualCost >>
  /\ UNCHANGED orchVars

AgentStep ==
  \/ \E cost \in CostsFor(agent), content \in ContentsFor(agent),
          calls \in ToolCallListsFor(agent) :
       BackendReturns(cost, content, calls)
  \/ BackendThrows
  \/ \E handlerThrows \in BOOLEAN : ToolReturns(handlerThrows)

(* --------------------------- Orchestrator ------------------------------ *)
\* runTask up to "await this.getToolRegistry()"
RunTask(total) ==
  /\ pc = "idle"
  /\ config' = [task |-> OriginalTask, budget |-> total]
  /\ budget' = NewBudgetManager(total)
  /\ activeTasks' = activeTasks \cup {TaskId}
  /\ pc' = "registry"
  /\ UNCHANGED << tasks, lastCall, ledgerHistory, providerConfigured, toolRegistry, activeAgents, planText, subtasks,
                  sorted, idx, completed, agentResults, taskResult, agent, nextId,
                  actualCost, events >>

\* getToolRegistry resolves
RegistryReady ==
  /\ pc = "registry"
  /\ toolRegistry' = "ready"
  /\ pc' = "plan"
  /\ UNCHANGED << tasks, lastCall, ledgerHistory, providerConfigured, activeTasks, activeAgents, config, budget,
                  planText, subtasks, sorted, idx, completed, agentResults, taskResult,
                  agent, nextId, actualCost, events >>

\* createToolRegistry rejects: the await stands before the try block, so the
\* promise of runTask rejects and nothing after it runs
RegistryFails ==
  /\ pc = "registry"
  /\ pc' = "rejected"
  /\ UNCHANGED << tasks, lastCall, ledgerHistory, providerConfigured, toolRegistry, activeTasks, activeAgents, config,
                  budget, planText, subtasks, sorted, idx, completed, agentResults,
                  taskResult, agent, nextId, actualCost, events >>

\* the catch block of runTask; bm is the BudgetManager at the throw
Catch(bm, message) ==
  /\ taskResult' = [status |-> "error", output |-> << << "Error", message >> >>,
                    totalCost |-> bm.totalSpent, agentResults |-> agentResults]
  /\ activeTasks' = activeTasks \ {TaskId}
  /\ pc' = "done"
  /\ budget' = bm

\* planTask up to the planner's first backend call
PlanTask ==
  /\ pc = "plan"
  /\ LET requested == Percent(config.budget, PlannerPercent)
         planBudget == allocated(budget, requested)
         bm == allocate(budget, "planner", requested)
     IN IF planBudget <= 0
        THEN /\ subtasks' = << >>
             /\ pc' = "planned"
             /\ budget' = bm
             /\ UNCHANGED << activeTasks, taskResult, agent, nextId >>
        ELSE IF ~providerConfigured
        THEN /\ Catch(bm, "No provider configured")
             /\ UNCHANGED << subtasks, agent, nextId >>
        ELSE /\ agent' = run(NewAgent(Uuid(nextId), "Planner", planBudget, MaxTurns,
                                      "planner"),
                             "Plan this task")
             /\ nextId' = nextId + 1
             /\ pc' = "planning"
             /\ budget' = bm
             /\ UNCHANGED << activeTasks, taskResult, subtasks >>
  /\ UNCHANGED << tasks, lastCall, ledgerHistory, providerConfigured, toolRegistry, activeAgents, config, planText,
                  sorted, idx, completed, agentResults, actualCost, events >>

\* JSON.parse of the match and the array test; a throw is caught and an
\* empty array, like no match, means no decomposition
parsePlan(text) ==
  IF text.matched /\ text.parses /\ Len(text.elems) > 0
  THEN text.elems
  ELSE << >>

\* planTask after the planner's run returned.  Only the text written as a
\* plan ("plan") holds brackets for result.output.match(/\[[\s\S]*\]/); which
\* bracketed text it is shows when it is read here
PlanParsed ==
  /\ pc = "planning"
  /\ agent.pc = "done"
  /\ \/ /\ agent.result.output # "plan"
        /\ planText' = NoPlanText
     \/ /\ agent.result.output = "plan"
        /\ \E text \in {UnparsableText, PlanText(<< >>)} \cup
                       { PlanText(p) : p \in MalformedPlans } : planText' = text
     \/ /\ agent.result.output = "plan"
        /\ \E ids \in IdLists : \E attrs \in AttributesFor(ids) :
             planText' = PlanText(Plan(ids, attrs))
  /\ subtasks' = parsePlan(planText')
  /\ agent' = NoAgent
  /\ pc' = "planned"
  /\ UNCHANGED << tasks, lastCall, ledgerHistory, providerConfigured, toolRegistry, activeTasks, activeAgents, config,
                  budget, sorted, idx, completed, agentResults, taskResult,
                  nextId, actualCost, events >>

\* runAgent that does not ask for the provider
runAgent_NoProviderCheck(preset, task, ceiling, bm) ==
  LET id == Uuid(nextId)
  IN /\ agent' = run(NewAgent(id, "Coder", ceiling, MaxTurns, id), task)
     /\ nextId' = nextId + 1
     /\ activeAgents' = activeAgents \cup {id}
     /\ events' = Append(events, [type |-> "agent_started", id |-> id,
                                  name |-> "Coder", about |-> task])
     /\ budget' = bm
     /\ pc' = "running"
     /\ UNCHANGED << activeTasks, taskResult >>

\* runAgent up to the agent's first backend call; bm is the BudgetManager
\* after the caller's allocate
runAgent(preset, task, ceiling, bm) ==
  IF ~providerConfigured
  THEN /\ Catch(bm, "No provider configured")
       /\ UNCHANGED << activeAgents, agent, nextId, events >>
  ELSE IF preset \notin Presets
  THEN /\ Catch(bm, "Cannot read properties of undefined")
       /\ UNCHANGED << activeAgents, agent, nextId, events >>
  ELSE LET id == Uuid(nextId)
       IN /\ agent' = run(NewAgent(id, PresetName(preset), ceiling, MaxTurns, id), task)
          /\ nextId' = nextId + 1
          /\ activeAgents' = activeAgents \cup {id}
          /\ events' = Append(events, [type |-> "agent_started", id |-> id,
                                       name |-> PresetName(preset), about |-> task])
          /\ budget' = bm
          /\ pc' = "running"
          /\ UNCHANGED << activeTasks, taskResult >>

\* runTask after planTask returned: the simple path up to the coder's first
\* backend call, or the sort that starts the complex path
Dispatch ==
  /\ pc = "planned"
  /\ IF Len(subtasks) = 0
     THEN /\ runAgent("coder", config.task, allocated(budget, remaining(budget)),
                      allocate(budget, "single-coder", remaining(budget)))
          /\ UNCHANGED << sorted, idx, completed >>
     ELSE IF topologicalSortThrows(subtasks)
     THEN /\ Catch(budget, "task.dependsOn is not iterable")
          /\ UNCHANGED << sorted, idx, completed, activeAgents, agent, nextId, events >>
     ELSE /\ sorted' = topologicalSort(subtasks)
          /\ idx' = 1
          /\ completed' = {}
          /\ pc' = "loop"
          /\ UNCHANGED << budget, activeTasks, taskResult, activeAgents, agent, nextId,
                          events >>
  /\ UNCHANGED << tasks, lastCall, ledgerHistory, providerConfigured, toolRegistry, config, planText, subtasks,
                  agentResults, actualCost >>

budgetMultiplier(subtask) ==
  IF subtask.complexity = "complex" THEN ComplexPercent
  ELSE IF subtask.complexity = "medium" THEN MediumPercent
  ELSE SimplePercent

\* depsReady that lets every subtask through
depsReady_NoCheck(subtask, done) == TRUE

depsReady(subtask, done) ==
  \A k \in 1..Len(subtask.dependsOn) : subtask.dependsOn[k] \in done

\* "if (budget.remaining <= 0) break"
budgetExhausted(b) == remaining(b) <= 0

\* noHeadroom that never breaks
noHeadroom_NoBreak(agentBudget) == FALSE

\* "if (agentBudget <= 0) break"
noHeadroom(agentBudget) == agentBudget <= 0

\* markCompleted that records nothing
markCompleted_Never(done, subtask, result) == done

\* markCompleted that records only the subtasks whose agent completed
markCompleted_OnlyOnSuccess(done, subtask, result) ==
  IF result.status = "completed" THEN done \cup {subtask.id} ELSE done

\* "completed.add(subtask.id)", whatever the status of the result
markCompleted(done, subtask, result) == done \cup {subtask.id}

\* one iteration of the loop over the sorted subtasks, up to the break, the
\* continue or the subtask agent's first backend call
LoopStep ==
  /\ pc = "loop"
  /\ IF idx > Len(sorted) \/ budgetExhausted(budget)
     THEN /\ pc' = "aggregate"
          /\ UNCHANGED << idx, budget, activeTasks, taskResult, activeAgents, agent,
                          nextId, events >>
     ELSE LET subtask == sorted[idx]
              requested == Percent(config.budget, budgetMultiplier(subtask))
              agentBudget == allocated(budget, requested)
              bm == allocate(budget, AgentKey(subtask.id), requested)
          IN IF ~depsReady(subtask, completed)
             THEN /\ idx' = idx + 1
                  /\ UNCHANGED << pc, budget, activeTasks, taskResult, activeAgents,
                                  agent, nextId, events >>
             ELSE IF noHeadroom(agentBudget)
             THEN /\ pc' = "aggregate"
                  /\ budget' = bm
                  /\ UNCHANGED << idx, activeTasks, taskResult, activeAgents, agent,
                                  nextId, events >>
             ELSE /\ runAgent(subtask.agentType, subtask.description, agentBudget, bm)
                  /\ UNCHANGED idx
  /\ UNCHANGED << tasks, lastCall, ledgerHistory, providerConfigured, toolRegistry, config, planText, subtasks, sorted,
                  completed, agentResults, actualCost >>

\* AgentReturns that leaves the agent in the active-agent map
AgentReturns_StaysActive ==
  /\ pc = "running"
  /\ agent.pc = "done"
  /\ events' = Append(events, [type |-> "agent_done", id |-> agent.id,
                               name |-> agent.name, about |-> agent.result.status])
  /\ activeAgents' = activeAgents
  /\ budget' = release(budget, agent.id)
  /\ agentResults' = Append(agentResults, agent.result)
  /\ IF Len(subtasks) = 0
     THEN /\ pc' = "aggregate"
          /\ UNCHANGED << completed, idx >>
     ELSE /\ completed' = markCompleted(completed, sorted[idx], agent.result)
          /\ idx' = idx + 1
          /\ pc' = "loop"
  /\ agent' = NoAgent
  /\ UNCHANGED << tasks, lastCall, ledgerHistory, providerConfigured, toolRegistry, activeTasks, config, planText,
                  subtasks, sorted, taskResult, nextId, actualCost >>

\* runAgent after the agent's run returned, and the caller's bookkeeping
AgentReturns ==
  /\ pc = "running"
  /\ agent.pc = "done"
  /\ events' = Append(events, [type |-> "agent_done", id |-> agent.id,
                               name |-> agent.name, about |-> agent.result.status])
  /\ activeAgents' = activeAgents \ {agent.id}
  /\ budget' = release(budget, agent.id)
  /\ agentResults' = Append(agentResults, agent.result)
  /\ IF Len(subtasks) = 0
     THEN /\ pc' = "aggregate"
          /\ UNCHANGED << completed, idx >>
     ELSE /\ completed' = markCompleted(completed, sorted[idx], agent.result)
          /\ idx' = idx + 1
          /\ pc' = "loop"
  /\ agent' = NoAgent
  /\ UNCHANGED << tasks, lastCall, ledgerHistory, providerConfigured, toolRegistry, activeTasks, config, planText,
                  subtasks, sorted, taskResult, nextId, actualCost >>

\* taskStatus that reports an agent that did not complete as an error
taskStatus_FromAgentStatuses(b, results) ==
  IF \E k \in 1..Len(results) : results[k].status # "completed" THEN "error"
  ELSE IF remaining(b) <= 0 THEN "budget_exhausted" ELSE "completed"

\* status: budget.remaining <= 0 ? "budget_exhausted" : "completed"
taskStatus(b, results) ==
  IF remaining(b) <= 0 THEN "budget_exhausted" ELSE "completed"

\* the aggregation that ends the try block
Aggregate ==
  /\ pc = "aggregate"
  /\ taskResult' =
       [status |-> taskStatus(budget, agentResults),
        output |-> [k \in 1..Len(agentResults) |->
                      << agentResults[k].name, agentResults[k].status >>],
        totalCost |-> budget.totalSpent,
        agentResults |-> agentResults]
  /\ activeTasks' = activeTasks \ {TaskId}
  /\ pc' = "done"
  /\ UNCHANGED << tasks, lastCall, ledgerHistory, providerConfigured, toolRegistry, activeAgents, config, budget,
                  planText, subtasks, sorted, idx, completed, agentResults, agent,
                  nextId, actualCost, events >>

\* cancelTask(taskId) for a task of the active set
CancelTask ==
  /\ TaskId \in activeTasks
  /\ agent' = IF agent.id \in activeAgents THEN [agent EXCEPT !.aborted = TRUE]
              ELSE agent
  /\ activeTasks' = activeTasks \ {TaskId}
  /\ UNCHANGED << tasks, lastCall, ledgerHistory, providerConfigured, toolRegistry, activeAgents, pc, config, budget,
                  planText, subtasks, sorted, idx, completed, agentResults, taskResult,
                  nextId, actualCost, events >>

Next ==
  \/ \E total \in Budgets : RunTask(total)
  \/ RegistryReady
  \/ RegistryFails
  \/ PlanTask
  \/ AgentStep
  \/ PlanParsed
  \/ Dispatch
  \/ LoopStep
  \/ AgentReturns
  \/ Aggregate
  \/ CancelTask

Spec == Init /\ [][Next]_vars

\* every backend call and tool execution of the task's agents returns or
\* throws, and once planTask has returned every continuation of runTask that
\* is ready runs
FairSpec ==
  /\ Spec
  /\ WF_vars(AgentStep)
  /\ WF_vars(Dispatch \/ LoopStep \/ AgentReturns \/ Aggregate)

(* ---------------------- an Agent run on its own ------------------------ *)
\* budget ceilings an agent is constructed with
AgentCeilings == {0, CallCost, BudgetStep}

AgentInit ==
  /\ providerConfigured = TRUE
  /\ planText = NoPlanText
  /\ toolRegistry = "ready"
  /\ activeTasks = {}
  /\ activeAgents = {}
  /\ pc = "standalone"
  /\ config = [task |-> OriginalTask, budget |-> 0]
  /\ budget = NewBudgetManager(0)
  /\ subtasks = << >>
  /\ sorted = << >>
  /\ idx = 0
  /\ completed = {}
  /\ agentResults = << >>
  /\ taskResult = NoTaskResult
  /\ \E ceiling \in AgentCeilings, turnLimit \in 0..MaxTurns :
       agent = NewAgent(Uuid(0), "Agent", ceiling, turnLimit, "none")
  /\ nextId = 1
  /\ actualCost = 0
  /\ events = << >>
  /\ lastCall = NoCall
  /\ ledgerHistory = NoLedgerHistory
  /\ tasks = NoTasks

\* an agent constructed to run tool batches
BatchInit ==
  /\ providerConfigured = TRUE
  /\ planText = NoPlanText
  /\ toolRegistry = "ready"
  /\ activeTasks = {}
  /\ activeAgents = {}
  /\ pc = "standalone"
  /\ config = [task |-> OriginalTask, budget |-> 0]
  /\ budget = NewBudgetManager(0)
  /\ subtasks = << >>
  /\ sorted = << >>
  /\ idx = 0
  /\ completed = {}
  /\ agentResults = << >>
  /\ taskResult = NoTaskResult
  /\ \E turnLimit \in 1..MaxTurns :
       agent = NewAgent(Uuid(0), "BatchAgent", BudgetStep, turnLimit, "none")
  /\ nextId = 1
  /\ actualCost = 0
  /\ events = << >>
  /\ lastCall = NoCall
  /\ ledgerHistory = NoLedgerHistory
  /\ tasks = NoTasks

\* agent.run(task) is called
AgentRun ==
  /\ pc = "standalone"
  /\ agent.pc = "new"
  /\ agent' = run(agent, OriginalTask)
  /\ UNCHANGED << budget, actualCost >>
  /\ UNCHANGED orchVars

\* agent.abort()
Abort ==
  /\ pc = "standalone"
  /\ ~agent.aborted
  /\ agent' = [agent EXCEPT !.aborted = TRUE]
  /\ UNCHANGED << budget, actualCost >>
  /\ UNCHANGED orchVars

BackendResponds ==
  \/ \E cost \in CostsFor(agent), content \in ContentsFor(agent),
          calls \in ToolCallListsFor(agent) :
       BackendReturns(cost, content, calls)
  \/ BackendThrows

ToolResponds == \E handlerThrows \in BOOLEAN : ToolReturns(handlerThrows)

AgentNext == AgentRun \/ AgentStep \/ Abort

AgentSpec == AgentInit /\ [][AgentNext]_vars

BatchSpec == BatchInit /\ [][AgentNext]_vars

\* every backend call and every tool execution eventually returns or throws
FairAgentSpec == AgentSpec /\ WF_vars(BackendResponds) /\ WF_vars(ToolResponds)

(* -------------------- a BudgetManager on its own ----------------------- *)
\* most warnings counted before the client stops recording spend
MaxWarnings == 3

\* ids, requested amounts and spend amounts the client passes
LedgerIds == {"a", "b"}
LedgerRequests == {0, Percent(BudgetStep, SimplePercent), BudgetStep}
LedgerAmounts == {0, Percent(BudgetStep, 40), Percent(BudgetStep, 50)}

LedgerInit ==
  /\ providerConfigured = TRUE
  /\ planText = NoPlanText
  /\ toolRegistry = "null"
  /\ activeTasks = {}
  /\ activeAgents = {}
  /\ pc = "ledger"
  /\ config = [task |-> OriginalTask, budget |-> 0]
  /\ \E total \in Budgets : budget = NewBudgetManager(total)
  /\ subtasks = << >>
  /\ sorted = << >>
  /\ idx = 0
  /\ completed = {}
  /\ agentResults = << >>
  /\ taskResult = NoTaskResult
  /\ agent = NoAgent
  /\ nextId = 1
  /\ actualCost = 0
  /\ events = << >>
  /\ lastCall = NoCall
  /\ ledgerHistory = NoLedgerHistory
  /\ tasks = NoTasks

ledgerFrame ==
  UNCHANGED << providerConfigured, toolRegistry, activeTasks, activeAgents, pc, config,
               planText, subtasks, sorted, idx, completed, agentResults, taskResult,
               agent, nextId, actualCost, events, tasks >>

\* budget.allocate(agentId, requested)
Allocate(agentId, requested) ==
  /\ pc = "ledger"
  /\ budget' = allocate(budget, agentId, requested)
  /\ lastCall' = [op |-> "allocate", agentId |-> agentId, amount |-> requested,
              returned |-> allocated(budget, requested), emitted |-> << >>]
  /\ ledgerHistory' =
       [ledgerHistory EXCEPT
          !.spentAtAllocation = (agentId :> budget.totalSpent) @@ @,
          !.everAllocated = @ \cup {agentId}]
  /\ ledgerFrame

\* budget.recordSpend(agentId, amount)
RecordSpend(agentId, amount) ==
  /\ pc = "ledger"
  /\ budget.totalSpent <= budget.totalBudget
  /\ ledgerHistory.warnings < MaxWarnings
  /\ budget' = recordSpend(budget, agentId, amount)
  /\ LET emitted == recordSpendEmits(budget, agentId, amount)
     IN /\ lastCall' = [op |-> "recordSpend", agentId |-> agentId, amount |-> amount,
                    returned |-> recordSpendReturns(budget, agentId, amount),
                    emitted |-> emitted]
        /\ ledgerHistory' =
             [ledgerHistory EXCEPT
                !.recorded = @ + amount,
                !.warnings = @ + Cardinality({ k \in 1..Len(emitted) :
                                                emitted[k].type = "warning" })]
  /\ ledgerFrame

\* budget.canSpend(agentId)
CanSpend(agentId) ==
  /\ pc = "ledger"
  /\ lastCall' = [op |-> "canSpend", agentId |-> agentId, amount |-> 0,
              returned |-> canSpend(budget, agentId), emitted |-> << >>]
  /\ UNCHANGED << budget, ledgerHistory >>
  /\ ledgerFrame

\* budget.release(agentId)
Release(agentId) ==
  /\ pc = "ledger"
  /\ budget' = release(budget, agentId)
  /\ lastCall' = [op |-> "release", agentId |-> agentId, amount |-> 0,
              returned |-> unspent(budget, agentId), emitted |-> << >>]
  /\ ledgerHistory' =
       [ledgerHistory EXCEPT
          !.spentAtAllocation = [k \in (DOMAIN @) \ {agentId} |-> @[k]]]
  /\ ledgerFrame

\* budget.getSummary()
GetSummary ==
  /\ pc = "ledger"
  /\ lastCall' = [op |-> "getSummary", agentId |-> "none", amount |-> 0,
              returned |-> getSummary(budget), emitted |-> << >>]
  /\ UNCHANGED << budget, ledgerHistory >>
  /\ ledgerFrame

LedgerNext ==
  \/ \E agentId \in LedgerIds, requested \in LedgerRequests : Allocate(agentId, requested)
  \/ \E agentId \in LedgerIds, amount \in LedgerAmounts : RecordSpend(agentId, amount)
  \/ \E agentId \in LedgerIds : CanSpend(agentId)
  \/ \E agentId \in LedgerIds : Release(agentId)
  \/ GetSummary

LedgerSpec == LedgerInit /\ [][LedgerNext]_vars

(* ------------------- two tasks on one Orchestrator --------------------- *)
\* Two runTask calls share activeTasks, activeAgents and the uuid supply;
\* each has its own config, BudgetManager and agentResults.  Both are taken
\* up where planTask has returned no subtasks: the planner of each answered
\* its first call with prose at no cost
TaskIds == {"task-A", "task-B"}

PlannedBudget ==
  recordSpend(allocate(NewBudgetManager(BudgetStep), "planner",
                       Percent(BudgetStep, PlannerPercent)),
              "planner", 0)

TwoTaskInit ==
  /\ providerConfigured = TRUE
  /\ planText = NoPlanText
  /\ toolRegistry = "ready"
  /\ activeTasks = TaskIds
  /\ activeAgents = {}
  /\ pc = "two-tasks"
  /\ config = [task |-> OriginalTask, budget |-> 0]
  /\ budget = NewBudgetManager(0)
  /\ subtasks = << >>
  /\ sorted = << >>
  /\ idx = 0
  /\ completed = {}
  /\ agentResults = << >>
  /\ taskResult = NoTaskResult
  /\ agent = NoAgent
  /\ nextId = 3
  /\ actualCost = 0
  /\ events = << >>
  /\ lastCall = NoCall
  /\ ledgerHistory = NoLedgerHistory
  /\ tasks = [t \in TaskIds |->
                [pc |-> "planned",
                 config |-> [task |-> OriginalTask, budget |-> BudgetStep],
                 budget |-> PlannedBudget,
                 agent |-> NoAgent,
                 agentResults |-> << >>,
                 taskResult |-> NoTaskResult]]

twoTaskFrame ==
  UNCHANGED << providerConfigured, toolRegistry, pc, config, budget, planText,
               subtasks, sorted, idx, completed, agentResults, taskResult, agent,
               actualCost, lastCall, ledgerHistory >>

\* runTask of task t after planTask returned no subtasks: the allocation of
\* "single-coder" and runAgent up to the coder's first backend call
DispatchOf(t) ==
  LET T == tasks[t]
      agentBudget == allocated(T.budget, remaining(T.budget))
      bm == allocate(T.budget, "single-coder", remaining(T.budget))
      id == Uuid(nextId)
  IN /\ T.pc = "planned"
     /\ IF ~providerConfigured
        THEN /\ tasks' = [tasks EXCEPT ![t] =
                  [T EXCEPT !.pc = "done", !.budget = bm,
                            !.taskResult =
                              [status |-> "error",
                               output |-> << << "Error", "No provider configured" >> >>,
                               totalCost |-> bm.totalSpent,
                               agentResults |-> T.agentResults]]]
             /\ activeTasks' = activeTasks \ {t}
             /\ UNCHANGED << activeAgents, nextId, events >>
        ELSE /\ tasks' = [tasks EXCEPT ![t] =
                  [T EXCEPT !.pc = "running", !.budget = bm,
                            !.agent = run(NewAgent(id, PresetName("coder"), agentBudget,
                                                   MaxTurns, id),
                                          T.config.task)]]
             /\ nextId' = nextId + 1
             /\ activeAgents' = activeAgents \cup {id}
             /\ events' = Append(events, [type |-> "agent_started", id |-> id,
                                          name |-> PresetName("coder"),
                                          about |-> T.config.task])
             /\ UNCHANGED activeTasks
     /\ twoTaskFrame

\* provider.chat resolves for the coder of task t
BackendReturnsOf(t, cost, content, calls) ==
  LET T == tasks[t]
  IN /\ T.pc = "running"
     /\ T.agent.pc = "chat"
     /\ tasks' = [tasks EXCEPT ![t] =
          [T EXCEPT !.budget = OnCostUpdate(trackUsage(T.agent, cost), T.budget),
                    !.agent = chatReturns(T.agent, cost, content, calls)]]
     /\ UNCHANGED << activeTasks, activeAgents, nextId, events >>
     /\ twoTaskFrame

\* provider.chat rejects for the coder of task t
BackendThrowsOf(t) ==
  LET T == tasks[t]
  IN /\ T.pc = "running"
     /\ T.agent.pc = "chat"
     /\ tasks' = [tasks EXCEPT ![t] = [T EXCEPT !.agent = chatThrows(T.agent)]]
     /\ UNCHANGED << activeTasks, activeAgents, nextId, events >>
     /\ twoTaskFrame

\* tools.execute resolves for the coder of task t
ToolReturnsOf(t, handlerThrows) ==
  LET T == tasks[t]
  IN /\ T.pc = "running"
     /\ T.agent.pc = "tools"
     /\ T.agent.pending # << >>
     /\ tasks' = [tasks EXCEPT ![t] =
          [T EXCEPT !.agent = toolReturns(T.agent, handlerThrows)]]
     /\ UNCHANGED << activeTasks, activeAgents, nextId, events >>
     /\ twoTaskFrame

\* runAgent of task t after the coder's run returned, and the push of its
\* result
AgentReturnsOf(t) ==
  LET T == tasks[t]
  IN /\ T.pc = "running"
     /\ T.agent.pc = "done"
     /\ events' = Append(events, [type |-> "agent_done", id |-> T.agent.id,
                                  name |-> T.agent.name,
                                  about |-> T.agent.result.status])
     /\ activeAgents' = activeAgents \ {T.agent.id}
     /\ tasks' = [tasks EXCEPT ![t] =
          [T EXCEPT !.pc = "aggregate",
                    !.budget = release(T.budget, T.agent.id),
                    !.agentResults = Append(T.agentResults, T.agent.result),
                    !.agent = NoAgent]]
     /\ UNCHANGED << activeTasks, nextId >>
     /\ twoTaskFrame

\* the aggregation that ends the try block of task t
AggregateOf(t) ==
  LET T == tasks[t]
  IN /\ T.pc = "aggregate"
     /\ tasks' = [tasks EXCEPT ![t] =
          [T EXCEPT !.pc = "done",
                    !.taskResult =
                      [status |-> taskStatus(T.budget, T.agentResults),
                       output |-> [k \in 1..Len(T.agentResults) |->
                                     << T.agentResults[k].name,
                                        T.agentResults[k].status >>],
                       totalCost |-> T.budget.totalSpent,
                       agentResults |-> T.agentResults]]]
     /\ activeTasks' = activeTasks \ {t}
     /\ UNCHANGED << activeAgents, nextId, events >>
     /\ twoTaskFrame

\* cancelTask(t) for a task of the active set: abort() on every value of
\* activeAgents, then the delete
CancelTaskOf(t) ==
  /\ t \in activeTasks
  /\ tasks' = [u \in TaskIds |->
                 IF tasks[u].agent.id \in activeAgents
                 THEN [tasks[u] EXCEPT !.agent.aborted = TRUE]
                 ELSE tasks[u]]
  /\ activeTasks' = activeTasks \ {t}
  /\ UNCHANGED << activeAgents, nextId, events >>
  /\ twoTaskFrame

TwoTaskNext ==
  \E t \in TaskIds :
    \/ DispatchOf(t)
    \/ \E cost \in CostsFor(tasks[t].agent), content \in ContentsFor(tasks[t].agent),
            calls \in ToolCallListsFor(tasks[t].agent) :
         BackendReturnsOf(t, cost, content, calls)
    \/ BackendThrowsOf(t)
    \/ \E handlerThrows \in BOOLEAN : ToolReturnsOf(t, handlerThrows)
    \/ AgentReturnsOf(t)
    \/ AggregateOf(t)
    \/ CancelTaskOf(t)

TwoTaskSpec == TwoTaskInit /\ [][TwoTaskNext]_vars

(* ----------------------- a single coder's long run --------------------- *)
\* One task on the simple path, taken up where planTask has returned no
\* subtasks after a planner call at no cost.  The coder runs with the
\* default turn limit scaled to LongTurns and its calls cost 0 or
\* LongCallCost
LongCosts == {0, LongCallCost}

LongRunInit ==
  /\ providerConfigured = TRUE
  /\ planText = NoPlanText
  /\ toolRegistry = "ready"
  /\ activeTasks = {TaskId}
  /\ activeAgents = {}
  /\ pc = "planned-long"
  /\ config = [task |-> OriginalTask, budget |-> BudgetStep]
  /\ budget = PlannedBudget
  /\ subtasks = << >>
  /\ sorted = << >>
  /\ idx = 0
  /\ completed = {}
  /\ agentResults = << >>
  /\ taskResult = NoTaskResult
  /\ agent = NoAgent
  /\ nextId = 2
  /\ actualCost = 0
  /\ events = << >>
  /\ lastCall = NoCall
  /\ ledgerHistory = NoLedgerHistory
  /\ tasks = NoTasks

\* runTask after planTask returned no subtasks: the allocation of
\* "single-coder" and runAgent up to the coder's first backend call
LongDispatch ==
  LET id == Uuid(nextId)
      agentBudget == allocated(budget, remaining(budget))
  IN /\ pc = "planned-long"
     /\ budget' = allocate(budget, "single-coder", remaining(budget))
     /\ agent' = run(NewAgent(id, PresetName("coder"), agentBudget, LongTurns, id),
                     config.task)
     /\ nextId' = nextId + 1
     /\ activeAgents' = activeAgents \cup {id}
     /\ events' = Append(events, [type |-> "agent_started", id |-> id,
                                  name |-> PresetName("coder"), about |-> config.task])
     /\ pc' = "running"
     /\ UNCHANGED << tasks, lastCall, ledgerHistory, providerConfigured, toolRegistry,
                     activeTasks, config, planText, subtasks, sorted, idx, completed,
                     agentResults, taskResult, actualCost >>

LongRunNext ==
  \/ LongDispatch
  \/ \E cost \in LongCosts, content \in ContentsFor(agent),
          calls \in ToolCallListsFor(agent) :
       BackendReturns(cost, content, calls)
  \/ BackendThrows
  \/ \E handlerThrows \in BOOLEAN : ToolReturns(handlerThrows)
  \/ AgentReturns
  \/ Aggregate

LongRunSpec == LongRunInit /\ [][LongRunNext]_vars

(* ----------------------- topologicalSort on its own -------------------- *)
\* topologicalSort applied to every decomposition, repeated ids included
SortInit ==
  /\ providerConfigured = TRUE
  /\ planText = NoPlanText
  /\ toolRegistry = "ready"
  /\ activeTasks = {}
  /\ activeAgents = {}
  /\ pc = "sort"
  /\ config = [task |-> OriginalTask, budget |-> 0]
  /\ budget = NewBudgetManager(0)
  /\ \E ids \in IdLists : \E attrs \in AttributesFor(ids) :
       subtasks = Plan(ids, attrs)
  /\ sorted = << >>
  /\ idx = 0
  /\ completed = {}
  /\ agentResults = << >>
  /\ taskResult = NoTaskResult
  /\ agent = NoAgent
  /\ nextId = 1
  /\ actualCost = 0
  /\ events = << >>
  /\ lastCall = NoCall
  /\ ledgerHistory = NoLedgerHistory
  /\ tasks = NoTasks

\* this.topologicalSort(subtasks)
TopologicalSort ==
  /\ pc = "sort"
  /\ sorted' = topologicalSort(subtasks)
  /\ pc' = "sorted"
  /\ UNCHANGED << tasks, lastCall, ledgerHistory, providerConfigured, toolRegistry,
                  activeTasks, activeAgents, config, budget, planText, subtasks, idx,
                  completed, agentResults, taskResult, agent, nextId, actualCost,
                  events >>

SortSpec == SortInit /\ [][TopologicalSort]_vars

(* ------------------------------ claims --------------------------------- *)
TerminalStatuses == {"completed", "budget_exhausted", "max_turns", "error"}

\* C1: whenever an agent of the task (planner, single coder or subtask
\* agent) has a backend call in flight, the usage costs of the calls that
\* already returned in the task sum to strictly less than
\* totalBudget - reserve
C1_CallsStartBelowCeiling ==
  (pc \in {"planning", "running"} /\ agent.pc = "chat")
    => actualCost < budget.totalBudget - budget.reserve

\* a second subtask agent issues a call whose cost will carry the actual
\* spend to the ceiling or past it
C1_Witness ==
  /\ pc = "running"
  /\ agent.pc = "chat"
  /\ Len(agentResults) > 0
  /\ actualCost > 0
  /\ actualCost + CallCost >= budget.totalBudget - budget.reserve

\* C2 (as claimed): the totalCost of the TaskResult is the sum of the usage
\* costs of every backend call of the planner and of the agents
C2_TotalCostIsSumOfCallCosts ==
  (pc = "done") => taskResult.totalCost = actualCost

\* C3: once run has been called the agent reaches a terminal status, given
\* that backend calls and tool executions return or throw
C3_RunTerminates ==
  (agent.pc \in {"chat", "tools"})
    ~> (agent.pc = "done" /\ agent.result.status \in TerminalStatuses)

\* a run that went through the tool batch of every turn and ended on the
\* turn limit
C3_Witness ==
  /\ pc = "standalone"
  /\ agent.pc = "done"
  /\ agent.result.status = "max_turns"
  /\ agent.turns = MaxTurns
  /\ agent.turns > 0

(* history read off the emitted events *)
\* positions of the agent_started events
StartedAt == { k \in 1..Len(events) : events[k].type = "agent_started" }

\* an agent started for the task text t before position k has also finished
\* (its agent_done was emitted) before position k
FinishedBefore(t, k) ==
  \E i, j \in 1..(k - 1) :
    /\ i < j
    /\ events[i].type = "agent_started" /\ events[i].about = t
    /\ events[j].type = "agent_done" /\ events[j].id = events[i].id

PlanHasId(d) == \E i \in 1..Len(subtasks) : subtasks[i].id = d

\* C4: every subtask agent that was started had, for each dependsOn id of
\* the subtask it was started for that names a subtask of the plan, that
\* subtask's agent finished before it
C4_DependenciesFinishFirst ==
  \A k \in StartedAt : \A i \in 1..Len(sorted) :
    (sorted[i].description = events[k].about) =>
      \A n \in 1..Len(sorted[i].dependsOn) :
        PlanHasId(sorted[i].dependsOn[n]) =>
          FinishedBefore(Description(sorted[i].dependsOn[n]), k)

\* the planner listed the dependent first and both subtasks ran
C4_Witness ==
  /\ Len(subtasks) = 2
  /\ subtasks[1].dependsOn = << subtasks[2].id >>
  /\ \E k \in StartedAt : events[k].about = subtasks[1].description
  /\ \E k \in StartedAt : events[k].about = subtasks[2].description

\* the agent run for the subtask with id d returned, with whatever status
AgentRan(d) == FinishedBefore(Description(d), Len(events) + 1)

\* C5: the subtask whose agent returned is marked completed whatever the
\* status, the results collected before stay, and a subtask reached by the
\* loop all of whose dependencies had their agent run (completed or not)
\* is started when the budget is not exhausted and its allocation is positive
C5_FailedSubtaskDoesNotBlock ==
  [][ /\ (pc = "running" /\ pc' = "loop")
         => /\ sorted[idx].id \in completed'
            /\ agentResults' = Append(agentResults, agent.result)
      /\ (pc' = "done" /\ pc # "done") => taskResult'.agentResults = agentResults
      /\ ( /\ pc = "loop" /\ (pc' # "loop" \/ idx' # idx)
           /\ idx <= Len(sorted)
           /\ remaining(budget) > 0
           /\ \A n \in 1..Len(sorted[idx].dependsOn) : AgentRan(sorted[idx].dependsOn[n])
           /\ allocated(budget, Percent(config.budget, budgetMultiplier(sorted[idx]))) > 0
           /\ sorted[idx].agentType \in Presets )
         => /\ pc' = "running"
            /\ events'[Len(events')].about = sorted[idx].description
    ]_vars

\* a dependent is started after the agent of its dependency failed
C5_Witness ==
  /\ pc = "running"
  /\ Len(agentResults) = 1
  /\ agentResults[1].status = "error"
  /\ sorted[idx].dependsOn = << sorted[1].id >>
  /\ idx = 2

\* C6 (as claimed): runTask never rejects, every exception after the task
\* was registered as active ends in a resolved TaskResult
C6_RunTaskNeverRejects ==
  (TaskId \in activeTasks \/ pc # "idle") => pc # "rejected"

\* the planner's text cannot yield a well-formed non-empty list of subtasks
NoWellFormedPlan == ~(planText.parses /\ WellFormedPlan(planText.elems))

\* the text of the task each started agent was given, in order
RECURSIVE StartedTasks(_)
StartedTasks(k) ==
  IF k = 0 THEN << >>
  ELSE IF events[k].type = "agent_started"
       THEN Append(StartedTasks(k - 1), [name |-> events[k].name, about |-> events[k].about])
       ELSE StartedTasks(k - 1)

OneCoderOnOriginalTask ==
  StartedTasks(Len(events)) = << [name |-> "Coder", about |-> OriginalTask] >>

\* C7 (as claimed): with a provider configured, a planner output that is no
\* well-formed non-empty list of subtasks never ends the task with status
\* error; exactly one coder agent is run, on the original task text
C7_MalformedPlanDegrades ==
  (pc = "done" /\ providerConfigured /\ NoWellFormedPlan)
    => /\ taskResult.status # "error"
       /\ OneCoderOnOriginalTask
       /\ Len(taskResult.agentResults) = 1

\* C8 (as claimed): after an empty decomposition the single coder's ceiling
\* is totalBudget - plannerAllocation, whatever the planner spent
C8_CoderGetsTotalMinusPlannerAllocation ==
  (pc = "running" /\ Len(subtasks) = 0)
    => agent.budget = config.budget - Percent(config.budget, PlannerPercent)

\* C8 (amended): after an empty decomposition exactly one agent is started,
\* a coder on the original task text, and its ceiling is
\* max(0, totalBudget - reserve - the spend recorded during planning)
C8_CoderGetsHeadroomAfterPlanning ==
  /\ (pc = "running" /\ Len(subtasks) = 0)
       => /\ agent.budget =
               Max(0, config.budget - budget.reserve - budget.agentBudgets["planner"].spent)
          /\ OneCoderOnOriginalTask
  /\ (pc \in {"aggregate", "done"} /\ Len(subtasks) = 0 /\ taskResult.status # "error")
       => /\ OneCoderOnOriginalTask
          /\ Len(agentResults) = 1
          /\ agentResults[1].name = "Coder"

\* the planner spent and the coder runs under what is left of the pool
C8_Witness ==
  /\ pc = "running"
  /\ Len(subtasks) = 0
  /\ budget.agentBudgets["planner"].spent > 0
  /\ agent.pc = "chat"
  /\ agent.budget < config.budget - Percent(config.budget, PlannerPercent)

\* ids of the agents started, in order, and of the results collected
RECURSIVE StartedIds(_)
StartedIds(k) ==
  IF k = 0 THEN << >>
  ELSE IF events[k].type = "agent_started"
       THEN Append(StartedIds(k - 1), events[k].id)
       ELSE StartedIds(k - 1)

ResultIds(results) == [k \in 1..Len(results) |-> results[k].id]

AgentStarts ==
  /\ Len(events') = Len(events) + 1
  /\ events'[Len(events')].type = "agent_started"

\* C9: in the complex path an agent is started only while remaining > 0 and
\* with a positive allocation; when remaining <= 0 or the allocation is <= 0
\* the loop ends and no agent is started afterwards; the TaskResult holds
\* one entry per agent started, in the order they were started
C9_SchedulingStopsWithoutHeadroom ==
  [][ /\ (Len(subtasks) > 0 /\ AgentStarts)
         => (remaining(budget) > 0 /\ agent'.budget > 0)
      /\ ( /\ pc = "loop" /\ (pc' # "loop" \/ idx' # idx)
           /\ idx <= Len(sorted)
           /\ \/ remaining(budget) <= 0
              \/ /\ depsReady(sorted[idx], completed)
                 /\ allocated(budget,
                              Percent(config.budget, budgetMultiplier(sorted[idx]))) <= 0 )
         => (pc' = "aggregate" /\ events' = events)
      /\ (pc \in {"aggregate", "done"})
         => (events' = events /\ agentResults' = agentResults /\ pc' # "loop")
      /\ (pc' = "done" /\ pc # "done" /\ Len(subtasks) > 0)
         => /\ ResultIds(taskResult'.agentResults) = StartedIds(Len(events))
            /\ Len(taskResult'.agentResults) <= Len(sorted)
    ]_vars

\* the loop ended on an allocation of 0 with budget remaining: the subtask
\* it had reached and those after it have no result
C9_Witness ==
  /\ pc = "done"
  /\ idx <= Len(sorted)
  /\ Len(taskResult.agentResults) = 1
  /\ Len(sorted) = 2
  /\ remaining(budget) > 0
  /\ AgentKey(sorted[idx].id) \in DOMAIN budget.agentBudgets
  /\ budget.agentBudgets[AgentKey(sorted[idx].id)].allocated = 0

\* C10 (as claimed): once an agent has returned, the sub-ledger allocated
\* for it is no longer in the BudgetManager
C10_LedgerReleasedOnReturn ==
  (Len(agentResults) > 0 /\ (pc = "loop" \/ (pc = "aggregate" /\ Len(subtasks) = 0)))
    => DOMAIN budget.agentBudgets \subseteq {"planner"}

\* the loop is at a subtask and moves on: breaks, continues or starts its agent
LoopMoves == pc = "loop" /\ (pc' # "loop" \/ idx' # idx) /\ idx <= Len(sorted)

\* C11 (as claimed): a subtask reached by the loop whose dependsOn ids are
\* each completed or name no subtask of the plan, one of them naming none,
\* has its agent started when the budget is not exhausted and its allocation
\* is positive
C11_MissingDependencyIsSatisfied ==
  [][ ( /\ LoopMoves
        /\ providerConfigured
        /\ sorted[idx].agentType \in Presets
        /\ \E n \in 1..Len(sorted[idx].dependsOn) : ~PlanHasId(sorted[idx].dependsOn[n])
        /\ \A n \in 1..Len(sorted[idx].dependsOn) :
             \/ sorted[idx].dependsOn[n] \in completed
             \/ ~PlanHasId(sorted[idx].dependsOn[n])
        /\ remaining(budget) > 0
        /\ allocated(budget, Percent(config.budget, budgetMultiplier(sorted[idx]))) > 0 )
      => /\ pc' = "running"
         /\ events'[Len(events')].about = sorted[idx].description
    ]_vars

\* a cause of an exception inside the try block of runTask
ExceptionCause ==
  \/ ~providerConfigured
  \/ \E i \in 1..Len(subtasks) : ~subtasks[i].hasDependsOn \/ subtasks[i].agentType \notin Presets

\* C12: the aggregation sets the status to budget_exhausted when the
\* BudgetManager's spent is >= total and to completed otherwise, whatever
\* the statuses of the agents; an agent that returned, with whatever status,
\* sends runTask to the loop or the aggregation, and a TaskResult with status
\* error comes from an exception only
C12_StatusFromRemainingBudget ==
  [][ /\ (pc = "aggregate" /\ pc' = "done")
         => taskResult'.status =
              IF budget.totalSpent >= budget.totalBudget THEN "budget_exhausted"
              ELSE "completed"
      /\ (pc = "running" /\ pc' # "running") => pc' \in {"loop", "aggregate"}
      /\ (pc # "done" /\ pc' = "done" /\ taskResult'.status = "error")
         => (pc # "aggregate" /\ ExceptionCause)
    ]_vars

\* the task completed although one agent ran into its ceiling and another
\* into the turn limit
C12_Witness ==
  /\ pc = "done"
  /\ taskResult.status = "completed"
  /\ \E k \in 1..Len(agentResults) : agentResults[k].status = "budget_exhausted"
  /\ \E k \in 1..Len(agentResults) : agentResults[k].status = "max_turns"

\* C13: the value allocate(id, r) returned is <= r and
\* <= max(0, total - spent - reserve), and id's sub-ledger now holds that
\* value as its allocation and a spent of 0
C13_AllocateWithinHeadroom ==
  (lastCall.op = "allocate")
    => /\ lastCall.returned <= lastCall.amount
       /\ lastCall.returned <= Max(0, budget.totalBudget - budget.totalSpent - budget.reserve)
       /\ lastCall.agentId \in DOMAIN budget.agentBudgets
       /\ budget.agentBudgets[lastCall.agentId] =
            [allocated |-> lastCall.returned, spent |-> 0]

\* after some spend an id is allocated less than it requested, the reserve
\* being withheld
C13_Witness ==
  /\ lastCall.op = "allocate"
  /\ budget.totalSpent > 0
  /\ lastCall.returned > 0
  /\ lastCall.returned = budget.totalBudget - budget.totalSpent - budget.reserve
  /\ lastCall.returned < lastCall.amount

\* C14: spent is the sum of the amounts passed to recordSpend so far, no
\* call decreases it, and allocate, canSpend, release and getSummary leave
\* it as it was
C14_SpentIsSumOfRecordedAmounts ==
  [][ /\ budget'.totalSpent = ledgerHistory'.recorded
      /\ budget'.totalSpent >= budget.totalSpent
      /\ (lastCall'.op \in {"allocate", "canSpend", "release", "getSummary"})
         => budget'.totalSpent = budget.totalSpent
    ]_vars

\* a sub-ledger was released after spend had been recorded more than once
C14_Witness ==
  /\ lastCall.op = "release"
  /\ lastCall.agentId \in ledgerHistory.everAllocated
  /\ budget.totalSpent > Percent(BudgetStep, 50)
  /\ budget.totalSpent = ledgerHistory.recorded

\* the events of one type among those the last call emitted
Emitted(c, type) == { k \in 1..Len(c.emitted) : c.emitted[k].type = type }

\* usage (spent / total) moved from below p percent to at least p percent
Crosses(before, after, p) ==
  /\ before.totalSpent * 100 < p * before.totalBudget
  /\ after.totalSpent * 100 >= p * after.totalBudget

\* C15 (as claimed): recordSpend on a BudgetManager with a positive total
\* emits a warning on a call if and only if that call moves usage from below
\* 80% to at least 80% or from below 90% to at least 90%, and no more than
\* two warnings are emitted over the life of the BudgetManager
C15_WarningOnlyOnCrossing ==
  [][ (lastCall'.op = "recordSpend" /\ budget.totalBudget > 0)
      => /\ (Emitted(lastCall', "warning") # {})
              <=> (Crosses(budget, budget', 80) \/ Crosses(budget, budget', 90))
         /\ ledgerHistory'.warnings <= 2
    ]_vars

\* C16: the last recordSpend returned false and emitted exhausted exactly
\* when the spent it left is >= total, returned true without an exhausted
\* event otherwise, and emitted exactly one spend notification
C16_ExhaustedIffSpentReachesTotal ==
  (lastCall.op = "recordSpend")
    => /\ lastCall.returned = (budget.totalSpent < budget.totalBudget)
       /\ (Emitted(lastCall, "exhausted") # {}) <=> (budget.totalSpent >= budget.totalBudget)
       /\ Cardinality(Emitted(lastCall, "exhausted")) <= 1
       /\ Cardinality(Emitted(lastCall, "spend")) = 1
       /\ lastCall.emitted[1].type = "spend"
       /\ lastCall.emitted[1].amount = lastCall.amount

\* a call that brought spent to exactly the total
C16_Witness ==
  /\ lastCall.op = "recordSpend"
  /\ lastCall.amount > 0
  /\ budget.totalBudget > 0
  /\ budget.totalSpent = budget.totalBudget
  /\ lastCall.returned = FALSE
  /\ Emitted(lastCall, "exhausted") # {}

\* what was left for allocation when id's live sub-ledger was allocated
HeadroomAtAllocation(id) ==
  budget.totalBudget - ledgerHistory.spentAtAllocation[id] - budget.reserve

\* C17 (as claimed): every live sub-ledger has
\* allocated <= total - (spent when it was allocated) - reserve
C17_AllocatedWithinHeadroomAtAllocation ==
  \A id \in DOMAIN budget.agentBudgets :
    budget.agentBudgets[id].allocated <= HeadroomAtAllocation(id)

\* C17 (amended): every live sub-ledger has
\* allocated <= max(0, total - (spent when it was allocated) - reserve), and
\* an allocation of 0 when spent had passed total - reserve
C17_AllocatedWithinFlooredHeadroom ==
  \A id \in DOMAIN budget.agentBudgets :
    /\ budget.agentBudgets[id].allocated <= Max(0, HeadroomAtAllocation(id))
    /\ budget.agentBudgets[id].allocated >= 0
    /\ (HeadroomAtAllocation(id) < 0) => budget.agentBudgets[id].allocated = 0

\* a sub-ledger was allocated after spent had passed total - reserve, while
\* an earlier one holds a positive allocation
C17_Witness ==
  \E id, other \in DOMAIN budget.agentBudgets :
    /\ HeadroomAtAllocation(id) < 0
    /\ budget.agentBudgets[id].allocated = 0
    /\ budget.agentBudgets[other].allocated > 0
    /\ lastCall.op = "allocate"
    /\ lastCall.agentId = id

\* C18: release(id) for an id without a live sub-ledger returns 0 and leaves
\* total, spent, reserve and every sub-ledger as they were
C18_ReleaseUnknownIsNoOp ==
  [][ (lastCall'.op = "release" /\ lastCall'.agentId \notin DOMAIN budget.agentBudgets)
      => (lastCall'.returned = 0 /\ budget' = budget)
    ]_vars

\* an id that was never allocated has been released while another id holds
\* a sub-ledger with spend on it
C18_Witness ==
  /\ lastCall.op = "release"
  /\ lastCall.agentId \notin ledgerHistory.everAllocated
  /\ lastCall.returned = 0
  /\ \E other \in DOMAIN budget.agentBudgets : budget.agentBudgets[other].spent > 0

\* C19: release(id) for a live sub-ledger returns its allocated - spent,
\* removes that sub-ledger only and leaves total, spent, reserve and the
\* other sub-ledgers as they were
C19_ReleaseReturnsUnspent ==
  [][ (lastCall'.op = "release" /\ lastCall'.agentId \in DOMAIN budget.agentBudgets)
      => LET id == lastCall'.agentId
         IN /\ lastCall'.returned =
                 budget.agentBudgets[id].allocated - budget.agentBudgets[id].spent
            /\ DOMAIN budget'.agentBudgets = (DOMAIN budget.agentBudgets) \ {id}
            /\ \A k \in DOMAIN budget'.agentBudgets :
                 budget'.agentBudgets[k] = budget.agentBudgets[k]
            /\ budget'.totalSpent = budget.totalSpent
            /\ budget'.totalBudget = budget.totalBudget
            /\ budget'.reserve = budget.reserve
    ]_vars

\* a sub-ledger that had spent part of its allocation was released and the
\* other sub-ledger is still there
C19_Witness ==
  /\ lastCall.op = "release"
  /\ lastCall.agentId \in ledgerHistory.everAllocated
  /\ lastCall.agentId \notin DOMAIN budget.agentBudgets
  /\ lastCall.returned > 0
  /\ lastCall.returned \notin LedgerRequests
  /\ budget.totalSpent > 0
  /\ DOMAIN budget.agentBudgets # {}

\* C20: a backend call is in flight only while the agent's totalCost is
\* below its ceiling; run called on an agent with ceiling 0, a positive turn
\* limit and no abort returns budget_exhausted at once, with no backend call
\* made and no tool executed
C20_NoCallAtOrAboveCeiling ==
  [][ /\ (agent'.pc = "chat") => (agent'.totalCost < agent'.budget)
      /\ (agent'.pc = "tools") => (agent'.turns > 0)
      /\ ( /\ agent.pc = "new" /\ agent'.pc # "new"
           /\ agent.budget = 0 /\ agent.maxTurns > 0 /\ ~agent.aborted )
         => /\ agent'.pc = "done"
            /\ agent'.result.status = "budget_exhausted"
            /\ agent'.result.turns = 0
            /\ agent'.result.totalCost = 0
            /\ Len(agent'.messages) = 1
            /\ actualCost' = 0
    ]_vars

\* an agent with ceiling 0 returned budget_exhausted without a turn
C20_Witness ==
  /\ pc = "standalone"
  /\ agent.budget = 0
  /\ agent.maxTurns > 0
  /\ agent.pc = "done"
  /\ agent.result.status = "budget_exhausted"
  /\ agent.turns = 0

\* the assistant turns of an agent's history, one per backend call that
\* returned
AssistantTurns(a) == { k \in 1..Len(a.messages) : a.messages[k].role = "assistant" }
LastMessage(a) == a.messages[Len(a.messages)]

\* C21: an agent never starts more than maxTurns backend calls; a run whose
\* every response requested a tool call, that was not aborted, had no call
\* throw and stayed below its ceiling returns max_turns with turns = maxTurns
\* after exactly maxTurns calls
C21_TurnLimitBoundsBackendCalls ==
  /\ agent.chats <= agent.maxTurns
  /\ ( /\ pc = "standalone" /\ agent.pc = "done"
       /\ ~agent.aborted
       /\ agent.totalCost < agent.budget
       /\ \A k \in AssistantTurns(agent) : agent.messages[k].toolCalls # << >>
       /\ Cardinality(AssistantTurns(agent)) = agent.chats )
     => /\ agent.result.status = "max_turns"
        /\ agent.result.turns = agent.maxTurns
        /\ agent.chats = agent.maxTurns

\* every response requested a tool call and the run ended on the turn limit,
\* below its ceiling
C21_Witness ==
  /\ pc = "standalone" /\ agent.pc = "done"
  /\ agent.maxTurns = MaxTurns
  /\ agent.chats = MaxTurns
  /\ agent.result.status = "max_turns"
  /\ agent.totalCost > 0
  /\ agent.totalCost < agent.budget
  /\ \A k \in AssistantTurns(agent) : agent.messages[k].toolCalls # << >>

\* C22: a first response without tool invocation ends the run with status
\* completed, turns 1, one backend call and the cost of that call; at every
\* return of run, totalCost is the sum of the usage costs of the calls that
\* returned and turns is their number
C22_CompletesAfterOneTurn ==
  [][ /\ ( /\ pc = "standalone"
           /\ agent.pc = "chat" /\ agent.turns = 0
           /\ agent'.turns = 1
           /\ LastMessage(agent').toolCalls = << >> )
         => /\ agent'.pc = "done"
            /\ agent'.result.status = "completed"
            /\ agent'.result.turns = 1
            /\ agent'.chats = 1
            /\ agent'.result.totalCost = actualCost' - actualCost
            /\ agent'.result.output = LastMessage(agent').content
      /\ (pc = "standalone" /\ agent'.pc = "done")
         => /\ agent'.result.totalCost = actualCost'
            /\ agent'.result.turns = Cardinality(AssistantTurns(agent'))
    ]_vars

\* the first response carried a cost and no tool invocation
C22_Witness ==
  /\ pc = "standalone" /\ agent.pc = "done"
  /\ Len(agent.messages) = 2
  /\ agent.result.status = "completed"
  /\ agent.result.turns = 1
  /\ agent.result.totalCost = CallCost

\* C23 (as claimed): the output of every AgentResult is a non-empty string
C23_OutputNeverEmpty ==
  (agent.pc = "done") => agent.result.output # ""

\* C24: a backend call that throws ends run with a result, not an exception:
\* status error, the exception's message as output, and the totalCost and
\* turns of the calls that returned before
C24_BackendFailureIsResult ==
  [][ ( /\ pc = "standalone"
        /\ agent.pc = "chat" /\ agent'.pc # "chat"
        /\ agent'.turns = agent.turns )
      => /\ agent'.pc = "done"
         /\ agent'.result.status = "error"
         /\ agent'.result.output = "Error: backend failure"
         /\ agent'.result.totalCost = agent.totalCost
         /\ agent'.result.totalCost = actualCost
         /\ agent'.result.turns = agent.turns
         /\ agent'.result.turns = Cardinality(AssistantTurns(agent))
         /\ actualCost' = actualCost
    ]_vars

\* the second backend call threw after the first had returned at a cost
C24_Witness ==
  /\ pc = "standalone" /\ agent.pc = "done"
  /\ agent.result.status = "error"
  /\ agent.result.output = "Error: backend failure"
  /\ agent.result.turns = 1
  /\ agent.chats = 2
  /\ agent.result.totalCost = CallCost

\* C25: abort() only sets the flag.  With the flag set, a tool batch in
\* flight runs to its last invocation and its bundled result turn is
\* appended, after which run returns status error; a backend call in flight
\* is taken as it returns, as completed when it carries no tool invocation
\* and as the start of its batch otherwise; no backend call is started
C25_AbortIsCooperative ==
  [][ /\ (~agent.aborted /\ agent'.aborted) => agent' = [agent EXCEPT !.aborted = TRUE]
      /\ (agent.aborted /\ agent.pc = "tools" /\ agent' # agent)
         => IF Len(agent.pending) > 1
            THEN /\ agent'.pc = "tools"
                 /\ agent'.pending = Tail(agent.pending)
                 /\ Len(agent'.toolResults) = Len(agent.toolResults) + 1
            ELSE /\ agent'.pc = "done"
                 /\ agent'.result.status = "error"
                 /\ LastMessage(agent').role = "tool"
                 /\ Len(LastMessage(agent').toolResults) =
                      Len(agent'.messages[Len(agent'.messages) - 1].toolCalls)
      /\ (agent.aborted /\ agent.pc = "chat" /\ agent'.turns = agent.turns + 1)
         => IF LastMessage(agent').toolCalls = << >>
            THEN agent'.pc = "done" /\ agent'.result.status = "completed"
            ELSE agent'.pc = "tools" /\ agent'.pending = LastMessage(agent').toolCalls
      /\ agent.aborted => agent'.chats = agent.chats
    ]_vars

\* an aborted run returned error before its turn limit, after the whole
\* batch of its last response had been executed
C25_Witness ==
  /\ pc = "standalone" /\ agent.pc = "done"
  /\ agent.aborted
  /\ agent.result.status = "error"
  /\ agent.turns < agent.maxTurns
  /\ LastMessage(agent).role = "tool"
  /\ Len(LastMessage(agent).toolResults) = MaxBatch

\* texts ToolRegistry.execute resolves to
ToolTexts == {"tool output", "Error: Unknown tool", "Error executing tool"}

\* C27: each tool execution resolves to a text that fills the result slot of
\* its invocation, an error text for an unknown tool or a handler that
\* threw; after it the batch goes on with the next invocation and, after
\* the last one, the loop goes round: a failed tool never ends the run
C27_ToolFailureIsTextResult ==
  [][ (agent.pc = "tools" /\ agent'.pending # agent.pending)
      => LET head == Head(agent.pending)
             results == IF agent'.pc = "tools" THEN agent'.toolResults
                        ELSE LastMessage(agent').toolResults
             slot == results[Len(results)]
         IN /\ Len(results) = Len(agent.toolResults) + 1
            /\ results = Append(agent.toolResults, slot)
            /\ slot.toolCallId = head.id
            /\ slot.content \in ToolTexts
            /\ (head.name \notin RegisteredTools) => slot.content = "Error: Unknown tool"
            /\ (Len(agent.pending) > 1)
               => (agent'.pc = "tools" /\ agent'.pending = Tail(agent.pending))
            /\ (Len(agent.pending) = 1)
               => /\ LastMessage(agent').role = "tool"
                  /\ ( ~agent.aborted /\ agent.turns < agent.maxTurns
                       /\ agent.totalCost < agent.budget )
                     => (agent'.pc = "chat" /\ agent'.chats = agent.chats + 1)
                  /\ (agent'.pc = "done" /\ agent'.result.status = "error")
                     => agent.aborted
    ]_vars

\* both invocations of a batch failed, one on an unknown tool and one in its
\* handler, and the backend was called again and answered
C27_Witness ==
  /\ pc = "standalone"
  /\ Len(agent.messages) >= 4
  /\ agent.messages[3].role = "tool"
  /\ Len(agent.messages[3].toolResults) = 2
  /\ agent.messages[3].toolResults[1].content = "Error: Unknown tool"
  /\ agent.messages[3].toolResults[2].content = "Error executing tool"
  /\ agent.messages[4].role = "assistant"
  /\ ~agent.aborted

\* cancelTask(TaskId) returned true on this step
CancelStep == TaskId \in activeTasks /\ TaskId \notin activeTasks' /\ pc' = pc

\* C26 (as claimed): cancelTask for an active task sets the abort flag of
\* the agent whose run is in progress, the planner included, removes the
\* task from the active set and changes nothing else
C26_CancelAbortsEveryRunningAgent ==
  [][ CancelStep
      => /\ (agent.pc \in {"chat", "tools"}) => agent'.aborted
         /\ activeTasks' = activeTasks \ {TaskId}
         /\ UNCHANGED << activeAgents, budget, agentResults, taskResult, subtasks >>
    ]_vars

\* C28: without a provider for the model no agent is created, no backend
\* call is made and no spend is recorded; runTask resolves with status
\* error, totalCost 0 and no agent result, for every total budget
C28_NoProviderFailsBeforeSpend ==
  (~providerConfigured)
    => /\ agent = NoAgent
       /\ actualCost = 0
       /\ budget.totalSpent = 0
       /\ events = << >>
       /\ pc \notin {"planning", "running", "loop", "aggregate"}
       /\ (pc = "done")
          => /\ taskResult.status = "error"
             /\ taskResult.totalCost = 0
             /\ taskResult.agentResults = << >>

\* a task with budget 0, whose planning is skipped, ended at the single
\* coder's missing provider
C28_Witness ==
  /\ ~providerConfigured
  /\ pc = "done"
  /\ config.budget = 0
  /\ "single-coder" \in DOMAIN budget.agentBudgets
  /\ taskResult.status = "error"

\* the task was cancelled while runTask was still under way
Cancelled ==
  /\ TaskId \notin activeTasks
  /\ pc \in {"registry", "plan", "planning", "planned", "loop", "running", "aggregate"}

\* a provider.chat call is started on this step
CallStarts == agent'.chats > (IF agent'.id = agent.id THEN agent.chats ELSE 0)

\* C29 (as claimed): after cancelTask returned true no backend call is
\* started for the task and no further agent is started
C29_NoCallAfterCancel ==
  [][ Cancelled => (~CallStarts /\ ~AgentStarts) ]_vars

\* a step in which cancelTask(t) returns true
CancelStepOf(t) ==
  /\ t \in activeTasks
  /\ t \notin activeTasks'
  /\ tasks'[t].pc = tasks[t].pc

\* C30: with two tasks running side by side, a cancelTask of one task sets
\* the abort flag of no agent running for the other task, and leaves what
\* the other task holds (its agent, its ledger, its results) as it was
C30_CancelAbortsOnlyOwnAgents ==
  [][ \A t \in TaskIds : \A u \in TaskIds \ {t} :
        (CancelStepOf(t) /\ u \in activeTasks) => tasks'[u] = tasks[u]
    ]_vars

\* the key of the sub-ledger runTask allocated for the agent now running
LedgerKey ==
  IF pc = "planning" THEN "planner"
  ELSE IF Len(subtasks) = 0 THEN "single-coder"
  ELSE AgentKey(sorted[idx].id)

\* C31 (as claimed): in every budget snapshot the spent of the sub-ledger
\* allocated for the running agent (planner, single coder or subtask agent)
\* is the sum of the usage costs of the backend calls that agent has made
C31_SubLedgerSpentIsAgentCost ==
  (pc \in {"planning", "running"} /\ LedgerKey \in DOMAIN getSummary(budget).agents)
    => getSummary(budget).agents[LedgerKey].spent = agent.totalCost

\* recordSpend has returned false: the spend recorded reached the total
ExhaustionReported == budget.totalSpent > 0 /\ exhausted(budget)

\* C32 (as claimed): once a recordSpend of the task's BudgetManager has
\* returned false, no agent of the task starts another backend call
C32_NoCallAfterExhaustion ==
  [][ ExhaustionReported => ~CallStarts ]_vars

(* the dependency graph of a plan *)
IdsOf(subs) == { subs[i].id : i \in 1..Len(subs) }
DistinctIds(subs) == \A i, j \in 1..Len(subs) : i # j => subs[i].id # subs[j].id

\* the ids of the plan that the subtasks with id a list in dependsOn
DirectDeps(subs, a) ==
  { d \in IdsOf(subs) :
      \E i \in 1..Len(subs) :
        subs[i].id = a /\ \E n \in 1..Len(subs[i].dependsOn) : subs[i].dependsOn[n] = d }

RECURSIVE DepsWithin(_, _, _)
DepsWithin(subs, S, n) ==
  IF n = 0 THEN S
  ELSE DepsWithin(subs, S \cup UNION { DirectDeps(subs, x) : x \in S }, n - 1)

\* a depends on b, directly or through other subtasks of the plan
DependsOn(subs, a, b) == b \in DepsWithin(subs, DirectDeps(subs, a), Len(subs))

Acyclic(subs) == \A a \in IdsOf(subs) : ~DependsOn(subs, a, a)

\* the place of the subtask with this id in a list that holds it
PlaceOf(list, id) == CHOOSE j \in 1..Len(list) : list[j].id = id

IsPermutation(list, subs) ==
  /\ Len(list) = Len(subs)
  /\ \A i \in 1..Len(subs) : \E j \in 1..Len(list) : list[j] = subs[i]

\* C33 (as claimed): for a plan with distinct ids topologicalSort returns a
\* permutation of the subtasks in which every subtask comes after each of
\* its dependencies that exists in the plan, cyclic and self-dependent
\* plans included
C33_SortPutsDependenciesFirst ==
  (pc = "sorted" /\ DistinctIds(subtasks))
    => /\ IsPermutation(sorted, subtasks)
       /\ \A a \in IdsOf(subtasks) : \A d \in DirectDeps(subtasks, a) :
            PlaceOf(sorted, d) < PlaceOf(sorted, a)

\* C33 (amended): for a plan with distinct ids topologicalSort returns a
\* permutation of the subtasks in which every subtask comes after each of
\* its dependencies that exists in the plan and does not itself depend on
\* that subtask; in an acyclic plan that is every existing dependency
C33_SortPutsDependenciesFirstOffCycles ==
  (pc = "sorted" /\ DistinctIds(subtasks))
    => /\ IsPermutation(sorted, subtasks)
       /\ \A a \in IdsOf(subtasks) : \A d \in DirectDeps(subtasks, a) :
            \/ PlaceOf(sorted, d) < PlaceOf(sorted, a)
            \/ DependsOn(subtasks, d, a)

\* the planner listed a dependent before its dependency and the sort moved
\* the dependency in front
C33_Witness ==
  /\ pc = "sorted"
  /\ Len(subtasks) = 2
  /\ DistinctIds(subtasks)
  /\ Acyclic(subtasks)
  /\ subtasks[1].dependsOn = << subtasks[2].id >>
  /\ sorted = << subtasks[2], subtasks[1] >>

\* every dependsOn id names a subtask of the plan
DepsExist(subs) ==
  \A i \in 1..Len(subs) : \A n \in 1..Len(subs[i].dependsOn) :
    subs[i].dependsOn[n] \in IdsOf(subs)

SoundPlan(subs) == DistinctIds(subs) /\ DepsExist(subs) /\ Acyclic(subs)

\* the loop goes on to the next subtask without running the one it reached
SkipStep == pc = "loop" /\ pc' = "loop" /\ idx' = idx + 1

\* C34: for a plan with distinct ids, an acyclic dependency graph and only
\* dependsOn ids that name subtasks of the plan, every subtask the loop
\* reaches passes the readiness check, and the loop skips none
C34_ReadinessNeverFailsOnSoundPlan ==
  [][ (pc = "loop" /\ idx <= Len(sorted) /\ SoundPlan(subtasks))
        => (depsReady(sorted[idx], completed) /\ ~SkipStep)
    ]_vars

\* the planner listed the dependent first; the loop reaches it after its
\* dependency ran
C34_Witness ==
  /\ pc = "loop"
  /\ idx = 2
  /\ Len(sorted) = 2
  /\ SoundPlan(subtasks)
  /\ subtasks[1].dependsOn = << subtasks[2].id >>
  /\ sorted[2] = subtasks[1]
  /\ completed = {sorted[1].id}

\* the entries of the results that belong to agents started on this subtask
EntriesFor(results, subtask) ==
  { k \in 1..Len(results) :
      \E e \in StartedAt : /\ events[e].about = subtask.description
                           /\ events[e].id = results[k].id }

\* C35 (as claimed): when runTask returns status completed on the complex
\* path, every subtask of the plan has exactly one entry in agentResults
C35_CompletedMeansEverySubtaskRan ==
  (pc = "done" /\ Len(subtasks) > 0 /\ taskResult.status = "completed")
    => /\ Len(taskResult.agentResults) = Len(subtasks)
       /\ \A i \in 1..Len(subtasks) :
            Cardinality(EntriesFor(taskResult.agentResults, subtasks[i])) = 1

\* the allocated amounts of the sub-ledgers with these keys, summed
RECURSIVE SumAllocated(_, _)
SumAllocated(b, keys) ==
  IF keys = {} THEN 0
  ELSE LET k == CHOOSE x \in keys : TRUE
       IN b.agentBudgets[k].allocated + SumAllocated(b, keys \ {k})

\* C36 (as claimed): in every state of a task's BudgetManager the allocated
\* amounts of the live sub-ledgers sum to at most totalBudget - reserve
C36_AllocationsWithinPool ==
  SumAllocated(budget, DOMAIN budget.agentBudgets) <= budget.totalBudget - budget.reserve

\* an assistant turn that requests tool invocations
RequestsTools(msg) == msg.role = "assistant" /\ msg.toolCalls # << >>

\* the results answer the first Len(results) of the invocations, in order,
\* each tagged with the id of its invocation
AnswersInOrder(results, calls) ==
  /\ Len(results) <= Len(calls)
  /\ \A i \in 1..Len(results) :
       /\ results[i].toolCallId = calls[i].id
       /\ results[i].content \in ToolTexts

\* C37: an assistant turn that requests k >= 1 tool invocations is followed,
\* before the next backend call, by exactly one tool-result turn holding k
\* results in the order of the invocations, each tagged with its
\* invocation's id; until then the invocations are executed one at a time in
\* that order, each result collected before the next invocation starts
C37_BatchAnsweredInOrder ==
  /\ \A m \in 1..Len(agent.messages) :
       LET msg == agent.messages[m]
       IN /\ (RequestsTools(msg) /\ m = Len(agent.messages))
               => /\ agent.pc = "tools"
                  /\ agent.pending # << >>
                  /\ AnswersInOrder(agent.toolResults, msg.toolCalls)
                  /\ Len(agent.toolResults) + Len(agent.pending) = Len(msg.toolCalls)
                  /\ \A i \in 1..Len(agent.pending) :
                       agent.pending[i] = msg.toolCalls[Len(agent.toolResults) + i]
          /\ (RequestsTools(msg) /\ m < Len(agent.messages))
               => /\ agent.messages[m + 1].role = "tool"
                  /\ Len(agent.messages[m + 1].toolResults) = Len(msg.toolCalls)
                  /\ AnswersInOrder(agent.messages[m + 1].toolResults, msg.toolCalls)
                  /\ (m + 2 <= Len(agent.messages))
                       => agent.messages[m + 2].role # "tool"
          /\ (msg.role = "tool") => (m > 1 /\ RequestsTools(agent.messages[m - 1]))
  /\ (agent.pc = "chat") => ~RequestsTools(LastMessage(agent))
  /\ (agent.pc # "tools") => (agent.pending = << >> /\ agent.toolResults = << >>)

\* a batch of MaxBatch invocations was answered by one turn of MaxBatch
\* results and the next backend call is in flight
C37_Witness ==
  /\ pc = "standalone"
  /\ agent.pc = "chat"
  /\ agent.chats = 2
  /\ Len(agent.messages) = 3
  /\ Len(agent.messages[2].toolCalls) = MaxBatch
  /\ agent.messages[3].role = "tool"
  /\ Len(agent.messages[3].toolResults) = MaxBatch
  /\ agent.messages[3].toolResults[MaxBatch].toolCallId = agent.messages[2].toolCalls[MaxBatch].id

\* ids of the agents runAgent started whose run has not returned
UnfinishedIds ==
  { events[k].id : k \in StartedAt } \
  { events[k].id : k \in { j \in 1..Len(events) : events[j].type = "agent_done" } }

\* C38: within one task at most one agent runs at a time: while the planner
\* runs no other agent has been started, and an agent runAgent started has
\* returned before the next one is started, so the agent whose calls are
\* recorded against the BudgetManager is the only one running
C38_OneAgentAtATime ==
  /\ Cardinality(activeAgents) <= 1
  /\ UnfinishedIds = activeAgents
  /\ (pc = "planning") => (agent.name = "Planner" /\ UnfinishedIds = {})
  /\ (pc = "running") => UnfinishedIds = {agent.id}
  /\ (agent.pc \in {"chat", "tools"}) => pc \in {"planning", "running"}
  /\ (pc \notin {"planning", "running"}) => (agent = NoAgent /\ UnfinishedIds = {})

\* the second subtask agent runs after the planner and the first subtask
\* agent returned
C38_Witness ==
  /\ pc = "running"
  /\ agent.pc = "chat"
  /\ Len(agentResults) = 1
  /\ idx = 2
  /\ nextId = 4
  /\ activeAgents = {agent.id}

\* the agents started on this subtask
StartsFor(subtask) == { k \in StartedAt : events[k].about = subtask.description }

\* C39: once planTask has returned, whatever the plan (cyclic, self-
\* dependent, naming missing ids or repeating ids), runTask ends with a
\* TaskResult, given that every backend call and tool execution returns; and
\* at most one agent is started per subtask of the plan
C39_RunTaskEndsForEveryPlan ==
  /\ (pc = "planned") ~> (pc = "done" /\ taskResult.status # "none")
  /\ [](\A i \in 1..Len(subtasks) : Cardinality(StartsFor(subtasks[i])) <= 1)
  /\ []((Len(subtasks) > 0 /\ pc \notin {"planning", "planned"})
          => Cardinality(StartedAt) <= Len(subtasks))

\* a task ended whose plan was a cycle of two subtasks
C39_Witness ==
  /\ pc = "done"
  /\ taskResult.status # "none"
  /\ Len(subtasks) = 2
  /\ subtasks[1].dependsOn = << subtasks[2].id >>
  /\ subtasks[2].dependsOn = << subtasks[1].id >>

====
